---- MODULE Spec2Model ----
(***************************************************************************)
(* Model of the health-check utility (package main): the Validator         *)
(* isValidURL, the batch engine HealthCheck, and the streaming engine      *)
(* run -> streamHealthCheckWithContext with its producer, workers, closer  *)
(* and consumer goroutines.                                                *)
(*                                                                         *)
(* A Go string is a sequence of one-character strings, so that slicing     *)
(* (s[:n]) and len(s) are computed as the code computes them.              *)
(***************************************************************************)
EXTENDS Integers, Sequences, FiniteSets, TLC

(***************************************************************************)
(* Bounds of the model.                                                    *)
(***************************************************************************)
\* Concurrency limit.  The source sets 64 (src/main.go:89); the model is
\* scaled down so that inputs longer than the limit are explored.
MaxConcurrentRequests == 2
\* Longest address list given to HealthCheck.
MaxUrls == 3
\* Longest input file given to run.
MaxLines == 3
\* Longest tail appended to a scheme prefix in the Validator's inputs.
MaxTail == 2

(***************************************************************************)
(* Program constants (src/main.go:98-107).                                 *)
(***************************************************************************)
HTTPScheme == <<"h", "t", "t", "p", ":", "/", "/">>
HTTPSScheme == <<"h", "t", "t", "p", "s", ":", "/", "/">>
MinHTTPURLLength == 7
MinHTTPSURLLength == 8
ExitSuccess == 0
ExitError == 1

(***************************************************************************)
(* Validator.                                                              *)
(***************************************************************************)
\* s[:n] of Go: panics (slice bounds out of range) when n > len(s).
SliceTo(s, n) ==
    IF n <= Len(s)
    THEN [panics |-> FALSE, value |-> SubSeq(s, 1, n)]
    ELSE [panics |-> TRUE, value |-> <<>>]

\* Plausible slip: >= in place of > in both length guards.
isValidURL_GE(s) ==
    IF ~(Len(s) >= MinHTTPURLLength) THEN [panics |-> FALSE, value |-> FALSE]
    ELSE LET a == SliceTo(s, MinHTTPURLLength) IN
         IF a.panics THEN [panics |-> TRUE, value |-> FALSE]
         ELSE IF a.value = HTTPScheme THEN [panics |-> FALSE, value |-> TRUE]
         ELSE IF ~(Len(s) >= MinHTTPSURLLength) THEN [panics |-> FALSE, value |-> FALSE]
         ELSE LET b == SliceTo(s, MinHTTPSURLLength) IN
              IF b.panics THEN [panics |-> TRUE, value |-> FALSE]
              ELSE [panics |-> FALSE, value |-> (b.value = HTTPSScheme)]

\* isValidURL, evaluated left to right with Go's short-circuit && and ||.
\* The result records whether the evaluation panicked and, if not, its value.
isValidURL(s) ==
    IF ~(Len(s) > MinHTTPURLLength) THEN [panics |-> FALSE, value |-> FALSE]
    ELSE LET a == SliceTo(s, MinHTTPURLLength) IN
         IF a.panics THEN [panics |-> TRUE, value |-> FALSE]
         ELSE IF a.value = HTTPScheme THEN [panics |-> FALSE, value |-> TRUE]
         ELSE IF ~(Len(s) > MinHTTPSURLLength) THEN [panics |-> FALSE, value |-> FALSE]
         ELSE LET b == SliceTo(s, MinHTTPSURLLength) IN
              IF b.panics THEN [panics |-> TRUE, value |-> FALSE]
              ELSE [panics |-> FALSE, value |-> (b.value = HTTPSScheme)]

(***************************************************************************)
(* Inputs of the Validator: every prefix of a scheme, and every scheme     *)
(* with one character replaced, followed by every tail of at most MaxTail  *)
(* characters; plus the strings of the table of TestIsValidURL.            *)
(***************************************************************************)
Alphabet == {"h", "t", "p", "s", ":", "/", "a", "f"}

Tails == UNION {[1..n -> Alphabet] : n \in 0..MaxTail}

Schemes == {HTTPScheme, HTTPSScheme}

Replaced(s, i, c) == [j \in 1..Len(s) |-> IF j = i THEN c ELSE s[j]]

Heads ==
    UNION {{SubSeq(b, 1, k) : k \in 0..Len(b)} : b \in Schemes}
    \cup UNION {{Replaced(b, i, c) : i \in 1..Len(b), c \in Alphabet} : b \in Schemes}

TableStrings ==
    { <<"f", "t", "p", ":", "/", "/", "a">>,
      <<"f", "a", ":", "/", "/", "/", "p", "a", "t", "h">>,
      <<"h", "t", "t", "p", "/", "/", "a", "a", "a">>,
      <<"h", "t", "t", "p", "s", "/", "/", "a", "a", "a">>,
      <<"a", "a", "a", "a", "a", "a", "a", "a", "a", "a">> }

ValidatorInputs == {h \o t : h \in Heads, t \in Tails} \cup TableStrings

(***************************************************************************)
(* Results and the HTTP environment (net/http and the remote servers).     *)
(* A nil error is "", an unset status is 0, an unset latency is 0.         *)
(***************************************************************************)
ZeroResult == [URL |-> <<>>, Status |-> 0, Err |-> "", Latency |-> 0]

StartsWith(s, p) == Len(s) >= Len(p) /\ SubSeq(s, 1, Len(p)) = p

\* The host part of an http(s) address: what follows the scheme.
HostOf(url) ==
    IF StartsWith(url, HTTPSScheme) THEN SubSeq(url, Len(HTTPSScheme) + 1, Len(url))
    ELSE SubSeq(url, Len(HTTPScheme) + 1, Len(url))

\* http.NewRequestWithContext: url.Parse rejects an address whose first
\* character is ':' (missing protocol scheme); "" and "not-a-url" parse.
NewRequestErr(url) ==
    IF url # <<>> /\ url[1] = ":" THEN "missing protocol scheme" ELSE ""

\* The responses a remote host gives to successive requests of one probe
\* (the test servers of main_test.go), or a transport failure.
ServerResponses(host) ==
    CASE host[1] = "o" -> [err |-> "", statuses |-> <<200>>]
      [] host[1] = "e" -> [err |-> "", statuses |-> <<500>>]
      [] host[1] = "r" -> [err |-> "", statuses |-> <<302, 302, 200>>]
      [] host[1] = "u" -> [err |-> "connection refused", statuses |-> <<>>]
      [] host[1] = "t" -> [err |-> "context deadline exceeded", statuses |-> <<>>]
      [] OTHER -> [err |-> "", statuses |-> <<404>>]

\* Plausible slip: the client is set not to follow redirects, so Do returns
\* the first response.
ClientDo_NoFollow(url, ctxDone) ==
    IF ctxDone THEN [err |-> "context canceled", status |-> 0]
    ELSE IF ~StartsWith(url, HTTPScheme) /\ ~StartsWith(url, HTTPSScheme)
    THEN [err |-> "unsupported protocol scheme", status |-> 0]
    ELSE IF HostOf(url) = <<>> THEN [err |-> "no Host in request URL", status |-> 0]
    ELSE LET r == ServerResponses(HostOf(url)) IN
         IF r.err # "" THEN [err |-> r.err, status |-> 0]
         ELSE [err |-> "", status |-> r.statuses[1]]

\* httpClient.Do: fails without network I/O on a cancelled context, an
\* unsupported scheme or a missing host; follows redirects to the last
\* response; fails on a transport error or on the per-request timeout.
ClientDo(url, ctxDone) ==
    IF ctxDone THEN [err |-> "context canceled", status |-> 0]
    ELSE IF ~StartsWith(url, HTTPScheme) /\ ~StartsWith(url, HTTPSScheme)
    THEN [err |-> "unsupported protocol scheme", status |-> 0]
    ELSE IF HostOf(url) = <<>> THEN [err |-> "no Host in request URL", status |-> 0]
    ELSE LET r == ServerResponses(HostOf(url)) IN
         IF r.err # "" THEN [err |-> r.err, status |-> 0]
         ELSE [err |-> "", status |-> r.statuses[Len(r.statuses)]]

\* time.Since(start): a positive duration.
Since == 1

OkURL == HTTPScheme \o <<"o">>
Srv500URL == HTTPScheme \o <<"e">>
UnreachableURL == HTTPScheme \o <<"u">>
RedirectURL == HTTPScheme \o <<"r">>
SecureURL == HTTPSScheme \o <<"o">>
MissingSchemeURL == <<":", "/", "/", "m">>
NotAURL == <<"n">>
FtpURL == <<"f", "t", "p", ":", "/", "/", "i">>
EmptyLine == <<>>

(***************************************************************************)
(* Batch mode: HealthCheck (src/main.go:289-340).                          *)
(***************************************************************************)
BatchAddresses == {OkURL, Srv500URL, UnreachableURL, MissingSchemeURL}

\* The malformed addresses of TestHealthCheck (empty URL, invalid format).
MalformedAddresses ==
    {EmptyLine, NotAURL, FtpURL, MissingSchemeURL, HTTPScheme, HTTPSScheme}

\* Address lists holding one malformed address, at any position.
MalformedInputs ==
    {[i \in 1..n |-> IF i = k THEN m ELSE OkURL] :
        n \in 1..MaxUrls, k \in 1..MaxUrls, m \in MalformedAddresses}

\* Address lists holding one address whose server redirects twice.
RedirectInputs ==
    {[i \in 1..n |-> IF i = k THEN RedirectURL ELSE OkURL] :
        n \in 1..MaxUrls, k \in 1..MaxUrls}

BatchInputs ==
    UNION {[1..n -> BatchAddresses] : n \in 0..MaxUrls}
    \cup MalformedInputs \cup RedirectInputs

Min(a, b) == IF a < b THEN a ELSE b

\* Plausible slip: a pool one token larger than the limit.
SemCapacity_OffByOne(urls) == Min(MaxConcurrentRequests + 1, Len(urls))

\* Capacity of the semaphore channel.
SemCapacity(urls) == Min(MaxConcurrentRequests, Len(urls))

\* Capacity of the semaphore channel in the HealthCheck of
\* src/unnamed/part_001: the limit, whatever the number of addresses.
SemCapacityV1 == MaxConcurrentRequests

\* GetServices: one entry per line of the reader, blank lines included.
GetServices(l) == l

\* Plausible slip: every task stores into the first slot.
SlotOf_Shared(idx) == 1

\* The slot a task stores its result into: results[idx].
SlotOf(idx) == idx

\* Plausible slip: the deferred release is missing.
ReleaseToken_Leak(n) == n

\* <-sem: one token leaves the channel.
ReleaseToken(n) == n - 1

\* Plausible slip: the latency is not taken when the request cannot be built.
TaskResult_NoLatencyOnBuildErr(url) ==
    LET nr == NewRequestErr(url) IN
    IF nr # "" THEN [URL |-> url, Status |-> 0, Err |-> nr, Latency |-> 0]
    ELSE LET resp == ClientDo(url, FALSE) IN
         IF resp.err # ""
         THEN [URL |-> url, Status |-> 0, Err |-> resp.err, Latency |-> Since]
         ELSE [URL |-> url, Status |-> resp.status, Err |-> "", Latency |-> Since]

\* Plausible slip: the error of the request is dropped.
TaskResult_DropErr(url) ==
    LET nr == NewRequestErr(url) IN
    IF nr # "" THEN [URL |-> url, Status |-> 0, Err |-> "", Latency |-> Since]
    ELSE LET resp == ClientDo(url, FALSE) IN
         [URL |-> url, Status |-> resp.status, Err |-> "", Latency |-> Since]

\* The body of a batch task, from result.URL = targetURL to the result it
\* stores: the request is built under context.Background(), sent with the
\* shared client, the latency is taken, and either Err or (after draining
\* and closing the body) Status is set.
TaskResult(url) ==
    LET nr == NewRequestErr(url) IN
    IF nr # "" THEN [URL |-> url, Status |-> 0, Err |-> nr, Latency |-> Since]
    ELSE LET resp == ClientDo(url, FALSE) IN
         IF resp.err # ""
         THEN [URL |-> url, Status |-> 0, Err |-> resp.err, Latency |-> Since]
         ELSE [URL |-> url, Status |-> resp.status, Err |-> "", Latency |-> Since]

\* Plausible slip: the body is drained only for a 200, and a response with
\* another status is closed unread.
BodyEvents_DrainOnSuccess(resp) ==
    IF resp.err # "" THEN <<>>
    ELSE IF resp.status = 200 THEN <<"drain", "close">>
    ELSE <<"close">>

\* What a probe does with the body of the response of httpClient.Do, in
\* order: nothing when Do failed; otherwise io.Copy(io.Discard, resp.Body)
\* and then resp.Body.Close(), whatever the status.
BodyEvents(resp) ==
    IF resp.err # "" THEN <<>> ELSE <<"drain", "close">>

\* Plausible slip: the error of httpClient.Do is not recorded.
checkURL_DropDoErr(ctxIsDone, url) ==
    LET nr == NewRequestErr(url) IN
    IF nr # "" THEN [URL |-> url, Status |-> 0, Err |-> nr, Latency |-> Since]
    ELSE LET resp == ClientDo(url, ctxIsDone) IN
         [URL |-> url, Status |-> resp.status, Err |-> "", Latency |-> Since]

\* checkURL(ctx, url) of streaming mode: the same steps under a request
\* context derived from ctx, so a ctx that is done when httpClient.Do returns
\* fails the request (ctxIsDone).
checkURL(ctxIsDone, url) ==
    LET nr == NewRequestErr(url) IN
    IF nr # "" THEN [URL |-> url, Status |-> 0, Err |-> nr, Latency |-> Since]
    ELSE LET resp == ClientDo(url, ctxIsDone) IN
         IF resp.err # ""
         THEN [URL |-> url, Status |-> 0, Err |-> resp.err, Latency |-> Since]
         ELSE [URL |-> url, Status |-> resp.status, Err |-> "", Latency |-> Since]

(***************************************************************************)
(* Streaming mode: inputs and pure parts (src/main.go:139-252).            *)
(***************************************************************************)
StreamLines == {EmptyLine, FtpURL, OkURL, UnreachableURL}

\* Files of blank, rejected and answering lines, and files holding one
\* address whose probe fails among answering ones.
StreamInputs ==
    UNION {[1..n -> StreamLines \ {UnreachableURL}] : n \in 0..MaxLines}
    \cup {[i \in 1..n |-> IF i = k THEN UnreachableURL ELSE OkURL] :
             n \in 1..MaxLines, k \in 1..MaxLines}

\* Lines of the inputs given with a context the caller may cancel.
DirectLines == {FtpURL, OkURL}

\* Inputs of accepted lines only, and inputs with one rejected line among
\* accepted ones.
DirectInputs ==
    {[i \in 1..n |-> OkURL] : n \in 0..MaxLines}
    \cup {[i \in 1..n |-> IF i = k THEN FtpURL ELSE OkURL] :
             n \in 1..MaxLines, k \in 1..MaxLines}

\* Plausible slip: one worker more than the limit.
NumWorkers_OneMore == MaxConcurrentRequests + 1

\* Number of worker goroutines started by the loop of line 218.
NumWorkers == MaxConcurrentRequests

\* Capacity of urlChan and of resultChan.
ChanCapacity == MaxConcurrentRequests

\* Plausible slip: the closer does not wait for the workers.
WaitGroupZero_NoWait(n) == TRUE

\* wg.Wait() returns when the counter is zero.
WaitGroupZero(n) == n = 0

\* Plausible slip: an invalid line is sent to the workers all the same.
ProducerAccepts_All(url) == TRUE

\* The producer forwards a non-blank line only when the Validator accepts it.
ProducerAccepts(url) == isValidURL(url).value

\* Plausible slip: the run fails when some probe failed.
StreamExit_FailOnError(o) ==
    IF \E k \in DOMAIN o : o[k].kind = "error" THEN ExitError ELSE ExitSuccess

\* The value streamHealthCheckWithContext returns, whatever was written on w.
StreamExit(o) == ExitSuccess

\* The line the consumer writes for a result (lines 243-248).
Render(r) ==
    IF r.Err # ""
    THEN [kind |-> "error", url |-> r.URL, err |-> r.Err, status |-> 0]
    ELSE [kind |-> "status", url |-> r.URL, err |-> "", status |-> r.Status]

\* The diagnostic the producer writes for a rejected line (line 200).
Diagnostic(n, url) == [kind |-> "invalid", url |-> url, err |-> "", status |-> n]

\* The line run prints before streaming (line 148).
Opening == [kind |-> "opening", url |-> <<>>, err |-> "", status |-> 0]

VARIABLES vpc, vs, vres,
          version, burls, bpc, bi, sem, semCap, wgCount, results, task, started,
          writers, tlog,
          rargs, rpc, exitCode, lines, ctxDone, parentCancelled,
          ppc, lineNum, scanErr, urlChan, urlClosed,
          wpc, wurl, wres, swg, cpc, resultChan, resClosed, out, errOut,
          cres, doneOrder, pushOrder, atCancel, sentOrder, wlog, proc, wreq

varsV == <<vpc, vs, vres>>

varsB == <<version, burls, bpc, bi, sem, semCap, wgCount, results, task,
           started, writers, tlog>>

varsS == <<rargs, rpc, exitCode, lines, ctxDone, parentCancelled,
           ppc, lineNum, scanErr, urlChan, urlClosed,
           wpc, wurl, wres, swg, cpc, resultChan, resClosed, out, errOut,
           cres, doneOrder, pushOrder, atCancel, sentOrder, wlog, proc,
           wreq>>

vars == <<varsV, varsB, varsS>>

Workers == 1..NumWorkers

\* The Validator is idle.
IdleValid ==
    /\ vpc = "idle"
    /\ vs = <<>>
    /\ vres = [panics |-> FALSE, value |-> FALSE]

\* HealthCheck is not called.
IdleBatch ==
    /\ version = "main.go"
    /\ burls = <<>>
    /\ bpc = "idle"
    /\ bi = 1
    /\ sem = 0
    /\ semCap = 0
    /\ wgCount = 0
    /\ results = <<>>
    /\ task = <<>>
    /\ started = <<>>
    /\ writers = <<>>
    /\ tlog = <<>>

\* The state of a run before any goroutine exists, for arguments a and file l.
\* The process: whether its effective user id differs from its user id and
\* whether SUDO_UID is set in its environment.
Processes == [setuid : BOOLEAN, sudo : BOOLEAN]

Unprivileged == [setuid |-> FALSE, sudo |-> FALSE]

\* validateExecution: the message it hands to fatal, which prints it on
\* stderr and calls os.Exit(ExitError); "" when it returns.
validateExecution(p) ==
    CASE p.setuid -> "Error: SUID/SGID execution denied"
      [] ~p.setuid /\ p.sudo -> "Error: sudo execution denied"
      [] OTHER -> ""

StreamStartState(a, l) ==
    /\ rargs = a
    /\ lines = l
    /\ exitCode = -1
    /\ ctxDone = FALSE
    /\ parentCancelled = FALSE
    /\ ppc = "idle"
    /\ lineNum = 0
    /\ scanErr = FALSE
    /\ urlChan = <<>>
    /\ urlClosed = FALSE
    /\ wpc = [w \in Workers |-> "idle"]
    /\ wurl = [w \in Workers |-> <<>>]
    /\ wres = [w \in Workers |-> ZeroResult]
    /\ swg = 0
    /\ cpc = "idle"
    /\ resultChan = <<>>
    /\ resClosed = FALSE
    /\ cres = ZeroResult
    /\ out = <<>>
    /\ errOut = <<>>
    /\ doneOrder = <<>>
    /\ pushOrder = <<>>
    /\ sentOrder = <<>>
    /\ wlog = [w \in Workers |-> <<>>]
    /\ wreq = [w \in Workers |-> "pending"]
    /\ atCancel = {}

\* Neither run nor streamHealthCheckWithContext is called.
IdleStream ==
    /\ rpc = "idle"
    /\ proc = Unprivileged
    /\ StreamStartState("none", <<>>)

(***************************************************************************)
(* The Validator called on its own.                                        *)
(***************************************************************************)
InitValid ==
    /\ vpc = "call"
    /\ vs \in ValidatorInputs
    /\ vres = [panics |-> FALSE, value |-> FALSE]
    /\ IdleBatch
    /\ IdleStream

\* One call isValidURL(vs).
Validate ==
    /\ vpc = "call"
    /\ vres' = isValidURL(vs)
    /\ vpc' = "done"
    /\ UNCHANGED <<vs, varsB, varsS>>

NextValid == Validate

SpecValid == InitValid /\ [][NextValid]_vars

(***************************************************************************)
(* Batch mode: the caller's loop and the probe tasks.  writers records,    *)
(* for each slot of results, the tasks that assigned it; tlog what each    *)
(* task did after httpClient.Do: "drain", "close", "store", "release".     *)
(***************************************************************************)
\* HealthCheck(burls) is about to be called.
InitBatch ==
    /\ IdleValid
    /\ IdleStream
    /\ version = "main.go"
    /\ burls \in BatchInputs
    /\ bpc = "call"
    /\ bi = 1
    /\ sem = 0
    /\ semCap = 0
    /\ wgCount = 0
    /\ results = <<>>
    /\ task = <<>>
    /\ started = <<>>
    /\ writers = <<>>
    /\ tlog = <<>>

Indexes == 1..Len(burls)

\* results := make(...); sem := make(chan struct{}, min(...)); wg.Add(len(urls)).
HealthCheckStart ==
    /\ bpc = "call"
    /\ results' = [i \in Indexes |-> ZeroResult]
    /\ semCap' = IF version = "part_001" THEN SemCapacityV1 ELSE SemCapacity(burls)
    /\ sem' = 0
    /\ wgCount' = Len(burls)
    /\ task' = [i \in Indexes |-> "none"]
    /\ started' = [i \in Indexes |-> 0]
    /\ writers' = [i \in Indexes |-> <<>>]
    /\ tlog' = [i \in Indexes |-> <<>>]
    /\ bi' = 1
    /\ bpc' = "loop"
    /\ UNCHANGED <<version, burls, varsV, varsS>>

\* Plausible slip: the loop waits for the probes it started to end before it
\* takes the next token, so the probes run one after the other.
Acquire_Serial ==
    /\ bpc = "loop"
    /\ bi <= Len(burls)
    /\ sem < semCap
    /\ \A i \in DOMAIN task : task[i] \notin {"newreq", "inflight"}
    /\ sem' = sem + 1
    /\ bpc' = "spawn"
    /\ UNCHANGED <<tlog, writers, version, burls, bi, semCap, wgCount,
                   results, task, started, varsV, varsS>>

\* sem <- struct{}{}: blocks while the channel is full.
Acquire ==
    /\ bpc = "loop"
    /\ bi <= Len(burls)
    /\ sem < semCap
    /\ sem' = sem + 1
    /\ bpc' = "spawn"
    /\ UNCHANGED <<tlog, writers, version, burls, bi, semCap, wgCount,
                   results, task, started, varsV, varsS>>

\* go func(idx, targetURL){...}(i, urls[i]); then the next iteration.
Spawn ==
    /\ bpc = "spawn"
    /\ task' = [task EXCEPT ![bi] = "newreq"]
    /\ started' = [started EXCEPT ![bi] = @ + 1]
    /\ bi' = bi + 1
    /\ bpc' = "loop"
    /\ UNCHANGED <<tlog, writers, version, burls, sem, semCap, wgCount,
                   results, varsV, varsS>>

\* The range loop ends; the caller reaches wg.Wait().
LoopExit ==
    /\ bpc = "loop"
    /\ bi > Len(burls)
    /\ bpc' = "wait"
    /\ UNCHANGED <<tlog, writers, version, burls, bi, sem, semCap, wgCount,
                   results, task, started, varsV, varsS>>

\* Plausible slip: the token is released at the end of the task body, not by
\* a deferred call, so the early return on a failed request construction
\* skips the release.
TaskNewRequest_SkipRelease(idx) ==
    /\ bpc \in {"loop", "spawn", "wait"}
    /\ idx \in Indexes
    /\ task[idx] = "newreq"
    /\ IF NewRequestErr(burls[idx]) # ""
       THEN /\ results' = [results EXCEPT
                              ![SlotOf(idx)] = TaskResult(burls[idx])]
            /\ tlog' = [tlog EXCEPT ![idx] = @ \o <<"store">>]
            /\ writers' = [writers EXCEPT ![SlotOf(idx)] = Append(@, idx)]
            /\ task' = [task EXCEPT ![idx] = "wgdone"]
       ELSE /\ task' = [task EXCEPT ![idx] = "inflight"]
            /\ UNCHANGED <<results, writers, tlog>>
    /\ UNCHANGED <<version, burls, bpc, bi, sem, semCap, wgCount, started,
                   varsV, varsS>>

\* Task idx builds its request: on failure it stores the result and returns,
\* otherwise it calls httpClient.Do.
TaskNewRequest(idx) ==
    /\ bpc \in {"loop", "spawn", "wait"}
    /\ idx \in Indexes
    /\ task[idx] = "newreq"
    /\ IF NewRequestErr(burls[idx]) # ""
       THEN /\ results' = [results EXCEPT
                              ![SlotOf(idx)] = TaskResult(burls[idx])]
            /\ tlog' = [tlog EXCEPT ![idx] = @ \o <<"store">>]
            /\ writers' = [writers EXCEPT ![SlotOf(idx)] = Append(@, idx)]
            /\ task' = [task EXCEPT ![idx] = "release"]
       ELSE /\ task' = [task EXCEPT ![idx] = "inflight"]
            /\ UNCHANGED <<results, writers, tlog>>
    /\ UNCHANGED <<version, burls, bpc, bi, sem, semCap, wgCount, started,
                   varsV, varsS>>

\* Plausible slip: when httpClient.Do fails the task returns before
\* results[idx] = result.
TaskComplete_SkipFailed(idx) ==
    /\ bpc \in {"loop", "spawn", "wait"}
    /\ idx \in Indexes
    /\ task[idx] = "inflight"
    /\ IF TaskResult(burls[idx]).Err # ""
       THEN /\ UNCHANGED <<results, writers>>
            /\ tlog' = [tlog EXCEPT ![idx] =
                          @ \o BodyEvents(ClientDo(burls[idx], FALSE))]
       ELSE /\ results' = [results EXCEPT
                              ![SlotOf(idx)] = TaskResult(burls[idx])]
            /\ tlog' = [tlog EXCEPT ![idx] =
                          @ \o BodyEvents(ClientDo(burls[idx], FALSE))
                            \o <<"store">>]
            /\ writers' = [writers EXCEPT ![SlotOf(idx)] = Append(@, idx)]
    /\ task' = [task EXCEPT ![idx] = "release"]
    /\ UNCHANGED <<version, burls, bpc, bi, sem, semCap, wgCount, started,
                   varsV, varsS>>

\* httpClient.Do returns; the task finishes its result and stores it in
\* results[idx].
TaskComplete(idx) ==
    /\ bpc \in {"loop", "spawn", "wait"}
    /\ idx \in Indexes
    /\ task[idx] = "inflight"
    /\ results' = [results EXCEPT ![SlotOf(idx)] = TaskResult(burls[idx])]
    /\ tlog' = [tlog EXCEPT ![idx] =
                  @ \o BodyEvents(ClientDo(burls[idx], FALSE)) \o <<"store">>]
    /\ writers' = [writers EXCEPT ![SlotOf(idx)] = Append(@, idx)]
    /\ task' = [task EXCEPT ![idx] = "release"]
    /\ UNCHANGED <<version, burls, bpc, bi, sem, semCap, wgCount, started,
                   varsV, varsS>>

\* Deferred func() { <-sem }().
TaskRelease(idx) ==
    /\ bpc \in {"loop", "spawn", "wait"}
    /\ idx \in Indexes
    /\ task[idx] = "release"
    /\ sem' = ReleaseToken(sem)
    /\ tlog' = [tlog EXCEPT ![idx] = @ \o <<"release">>]
    /\ task' = [task EXCEPT ![idx] = "wgdone"]
    /\ UNCHANGED <<writers, version, burls, bpc, bi, semCap, wgCount,
                   results, started, varsV, varsS>>

\* Deferred wg.Done().
TaskDone(idx) ==
    /\ bpc \in {"loop", "spawn", "wait"}
    /\ idx \in Indexes
    /\ task[idx] = "wgdone"
    /\ wgCount' = wgCount - 1
    /\ task' = [task EXCEPT ![idx] = "exited"]
    /\ UNCHANGED <<tlog, writers, version, burls, bpc, bi, sem, semCap,
                   results, started, varsV, varsS>>

\* Plausible slip: HealthCheck returns results without wg.Wait().
WaitReturn_NoWait ==
    /\ bpc = "wait"
    /\ bpc' = "returned"
    /\ UNCHANGED <<tlog, writers, version, burls, bi, sem, semCap, wgCount,
                   results, task, started, varsV, varsS>>

\* wg.Wait() returns when the counter is zero; HealthCheck returns results.
WaitReturn ==
    /\ bpc = "wait"
    /\ wgCount = 0
    /\ bpc' = "returned"
    /\ UNCHANGED <<tlog, writers, version, burls, bi, sem, semCap, wgCount,
                   results, task, started, varsV, varsS>>

NextBatch ==
    \/ HealthCheckStart
    \/ Acquire
    \/ Spawn
    \/ LoopExit
    \/ \E idx \in 1..MaxUrls : TaskNewRequest(idx)
    \/ \E idx \in 1..MaxUrls : TaskComplete(idx)
    \/ \E idx \in 1..MaxUrls : TaskRelease(idx)
    \/ \E idx \in 1..MaxUrls : TaskDone(idx)
    \/ WaitReturn

SpecBatch == InitBatch /\ [][NextBatch]_vars

(***************************************************************************)
(* Streaming mode: run, then streamHealthCheckWithContext with its         *)
(* producer, workers, closer and consumer.  rargs is "noargs" (no file     *)
(* argument), "nofile" (the file cannot be opened), "file" (run on a file  *)
(* holding lines) or "direct" (streamHealthCheckWithContext called with a  *)
(* context its caller may cancel).  proc is the process run is called in.  *)
(* doneOrder records the addresses in the order in which their             *)
(* calls of checkURL returned, pushOrder in the order in which their       *)
(* results were sent on resultChan, sentOrder the addresses in the order   *)
(* in which the producer sent them on urlChan, atCancel the workers whose  *)
(* probe was in flight when the caller cancelled and has not ended yet,    *)
(* wlog what each worker did for its current address after the response:   *)
(* "drain", "close", "emit", wreq how the httpClient.Do of the worker's     *)
(* checkURL stands: "pending" until it returns, then "returned" when the   *)
(* context was live at that moment and "cancelled" when it was done.       *)
(***************************************************************************)
\* streamHealthCheckWithContext is about to be called with a context its
\* caller may cancel.
InitDirect ==
    /\ IdleValid
    /\ IdleBatch
    /\ rpc = "stream"
    /\ proc = Unprivileged
    /\ \E l \in DirectInputs : StreamStartState("direct", l)

InitStream ==
    \/ /\ IdleValid
       /\ IdleBatch
       /\ rpc = "run"
       /\ proc \in Processes
       /\ \/ \E a \in {"noargs", "nofile"} : StreamStartState(a, <<>>)
          \/ \E l \in StreamInputs : StreamStartState("file", l)
    \/ InitDirect

\* Plausible slip: the error of os.Open is ignored and run goes on.
RunStart_IgnoreOpenError ==
    /\ rpc = "run"
    /\ CASE validateExecution(proc) # "" ->
              /\ errOut' = Append(errOut, validateExecution(proc))
              /\ exitCode' = ExitError
              /\ rpc' = "exited"
              /\ UNCHANGED out
         [] validateExecution(proc) = "" /\ rargs = "noargs" ->
              /\ errOut' = Append(errOut, "missing file argument")
              /\ exitCode' = ExitError
              /\ rpc' = "exited"
              /\ UNCHANGED out
         [] OTHER ->
              /\ out' = Append(out, Opening)
              /\ rpc' = IF version = "part_001" THEN "services" ELSE "stream"
              /\ UNCHANGED <<errOut, exitCode>>
    /\ UNCHANGED <<wreq, proc, wlog, sentOrder, cres, atCancel, pushOrder,
                   doneOrder, rargs, lines, ctxDone, parentCancelled, ppc,
                   lineNum, scanErr, urlChan, urlClosed, wpc, wurl, wres,
                   swg, cpc, resultChan, resClosed, varsV, varsB>>

\* run up to the call of streamHealthCheck: validateExecution exits the
\* process with code 1 when it is privileged; the setup errors return 1.
RunStart ==
    /\ rpc = "run"
    /\ CASE validateExecution(proc) # "" ->
              /\ errOut' = Append(errOut, validateExecution(proc))
              /\ exitCode' = ExitError
              /\ rpc' = "exited"
              /\ UNCHANGED out
         [] validateExecution(proc) = "" /\ rargs = "noargs" ->
              /\ errOut' = Append(errOut, "missing file argument")
              /\ exitCode' = ExitError
              /\ rpc' = "exited"
              /\ UNCHANGED out
         [] validateExecution(proc) = "" /\ rargs = "nofile" ->
              /\ out' = Append(out, Opening)
              /\ errOut' = Append(errOut, "open failed")
              /\ exitCode' = ExitError
              /\ rpc' = "exited"
         [] OTHER ->
              /\ out' = Append(out, Opening)
              /\ rpc' = IF version = "part_001" THEN "services" ELSE "stream"
              /\ UNCHANGED <<errOut, exitCode>>
    /\ UNCHANGED <<wreq, proc, wlog, sentOrder, cres, atCancel, pushOrder,
                   doneOrder, rargs, lines, ctxDone, parentCancelled, ppc,
                   lineNum, scanErr, urlChan, urlClosed, wpc, wurl, wres,
                   swg, cpc, resultChan, resClosed, varsV, varsB>>

\* The channels are made and the producer, the workers and the closer start.
StreamStart ==
    /\ rpc = "stream"
    /\ ppc' = "scan"
    /\ wpc' = [w \in Workers |-> "recv"]
    /\ swg' = NumWorkers
    /\ cpc' = "wait"
    /\ rpc' = "consume"
    /\ UNCHANGED <<wreq, proc, wlog, sentOrder, cres, atCancel, pushOrder,
                   doneOrder, rargs, exitCode, lines, ctxDone,
                   parentCancelled, lineNum, scanErr, urlChan, urlClosed,
                   wurl, wres, resultChan, resClosed, out, errOut, varsV,
                   varsB>>

\* The caller of streamHealthCheckWithContext cancels its context.
ParentCancel ==
    /\ rpc \in {"consume", "write"}
    /\ rargs = "direct"
    /\ ~ctxDone
    /\ ctxDone' = TRUE
    /\ parentCancelled' = TRUE
    /\ atCancel' = {w \in Workers : wpc[w] = "check"}
    /\ UNCHANGED <<wreq, proc, wlog, sentOrder, cres, pushOrder, doneOrder, rargs,
                   rpc, exitCode, lines, ppc, lineNum, scanErr, urlChan,
                   urlClosed, wpc, wurl, wres, swg, cpc, resultChan,
                   resClosed, out, errOut, varsV, varsB>>

\* scanner.Scan() yields the next line: a blank line is skipped, a rejected
\* line is to get its diagnostic on w, an accepted line is to be sent.
ProducerScan ==
    /\ ppc = "scan"
    /\ lineNum < Len(lines)
    /\ lineNum' = lineNum + 1
    /\ LET url == lines[lineNum + 1] IN
       IF url = <<>> THEN UNCHANGED ppc
       ELSE IF ~ProducerAccepts(url) THEN ppc' = "write"
       ELSE ppc' = "send"
    /\ UNCHANGED <<wreq, proc, wlog, sentOrder, cres, atCancel, pushOrder,
                   doneOrder, rargs, rpc, exitCode, lines, ctxDone,
                   parentCancelled, scanErr, urlChan, urlClosed, wpc, wurl,
                   wres, swg, cpc, resultChan, resClosed, out, errOut, varsV,
                   varsB>>

\* The producer's fmt.Fprintf(w, "Line %d: Invalid URL ...") returns: the
\* diagnostic is on w.  The call is under way while ppc = "write".
ProducerWrite ==
    /\ ppc = "write"
    /\ out' = Append(out, Diagnostic(lineNum, lines[lineNum]))
    /\ ppc' = "scan"
    /\ UNCHANGED <<wreq, proc, wlog, sentOrder, cres, atCancel, pushOrder,
                   doneOrder, rargs, rpc, exitCode, lines, ctxDone,
                   parentCancelled, lineNum, scanErr, urlChan, urlClosed,
                   wpc, wurl, wres, swg, cpc, resultChan, resClosed, errOut,
                   varsV, varsB>>

\* select case urlChan <- url: blocks while the channel is full.
ProducerSend ==
    /\ ppc = "send"
    /\ Len(urlChan) < ChanCapacity
    /\ urlChan' = Append(urlChan, lines[lineNum])
    /\ sentOrder' = Append(sentOrder, lines[lineNum])
    /\ ppc' = "scan"
    /\ UNCHANGED <<wreq, proc, wlog, cres, atCancel, pushOrder, doneOrder, rargs,
                   rpc, exitCode, lines, ctxDone, parentCancelled, lineNum,
                   scanErr, urlClosed, wpc, wurl, wres, swg, cpc, resultChan,
                   resClosed, out, errOut, varsV, varsB>>

\* select case <-ctx.Done(): the producer returns; deferred close(urlChan).
ProducerCancelled ==
    /\ ppc = "send"
    /\ ctxDone
    /\ urlClosed' = TRUE
    /\ ppc' = "done"
    /\ UNCHANGED <<wreq, proc, wlog, sentOrder, cres, atCancel, pushOrder,
                   doneOrder, rargs, rpc, exitCode, lines, ctxDone,
                   parentCancelled, lineNum, scanErr, urlChan, wpc, wurl,
                   wres, swg, cpc, resultChan, resClosed, out, errOut, varsV,
                   varsB>>

\* scanner.Scan() returns false at the end of the input; close(urlChan).
ProducerEOF ==
    /\ ppc = "scan"
    /\ lineNum = Len(lines)
    /\ urlClosed' = TRUE
    /\ ppc' = "done"
    /\ UNCHANGED <<wreq, proc, wlog, sentOrder, cres, atCancel, pushOrder,
                   doneOrder, rargs, rpc, exitCode, lines, ctxDone,
                   parentCancelled, lineNum, scanErr, urlChan, wpc, wurl,
                   wres, swg, cpc, resultChan, resClosed, out, errOut, varsV,
                   varsB>>

\* Plausible slip: on a read error the producer also cancels the context, to
\* stop the run at once.
ProducerReadError_Cancel ==
    /\ ppc = "scan"
    /\ lineNum < Len(lines)
    /\ scanErr' = TRUE
    /\ ctxDone' = TRUE
    /\ ppc' = "report"
    /\ UNCHANGED <<wreq, proc, wlog, sentOrder, cres, atCancel, pushOrder,
                   doneOrder, rargs, rpc, exitCode, lines, parentCancelled,
                   lineNum, urlChan, urlClosed, wpc, wurl, wres, swg, cpc,
                   resultChan, resClosed, out, errOut, varsV, varsB>>

\* scanner.Scan() returns false on a read error before the end of the input:
\* the loop ends and scanner.Err() is not nil.
ProducerReadError ==
    /\ ppc = "scan"
    /\ lineNum < Len(lines)
    /\ scanErr' = TRUE
    /\ ppc' = "report"
    /\ UNCHANGED <<wreq, proc, wlog, sentOrder, cres, atCancel, pushOrder,
                   doneOrder, rargs, rpc, exitCode, lines, ctxDone,
                   parentCancelled, lineNum, urlChan, urlClosed, wpc, wurl,
                   wres, swg, cpc, resultChan, resClosed, out, errOut, varsV,
                   varsB>>

\* The producer's fmt.Fprintf(os.Stderr, "Error reading input: ...") returns:
\* the message is on stderr.  The call is under way while ppc = "report".
ProducerReport ==
    /\ ppc = "report"
    /\ errOut' = Append(errOut, "Error reading input")
    /\ ppc' = "return"
    /\ UNCHANGED <<wreq, proc, wlog, sentOrder, cres, atCancel, pushOrder,
                   doneOrder, rargs, rpc, exitCode, lines, ctxDone,
                   parentCancelled, lineNum, scanErr, urlChan, urlClosed,
                   wpc, wurl, wres, swg, cpc, resultChan, resClosed, out,
                   varsV, varsB>>

\* The producer returns after the report; deferred close(urlChan).
ProducerReturn ==
    /\ ppc = "return"
    /\ urlClosed' = TRUE
    /\ ppc' = "done"
    /\ UNCHANGED <<wreq, proc, wlog, sentOrder, cres, atCancel, pushOrder,
                   doneOrder, rargs, rpc, exitCode, lines, ctxDone,
                   parentCancelled, lineNum, scanErr, urlChan, wpc, wurl,
                   wres, swg, cpc, resultChan, resClosed, out, errOut, varsV,
                   varsB>>

\* for url := range urlChan: the worker receives an address and calls checkURL.
WorkerRecv(w) ==
    /\ wpc[w] = "recv"
    /\ urlChan # <<>>
    /\ wurl' = [wurl EXCEPT ![w] = Head(urlChan)]
    /\ urlChan' = Tail(urlChan)
    /\ wlog' = [wlog EXCEPT ![w] = <<>>]
    /\ wpc' = [wpc EXCEPT ![w] = "check"]
    /\ UNCHANGED <<wreq, proc, sentOrder, cres, atCancel, pushOrder, doneOrder,
                   rargs, rpc, exitCode, lines, ctxDone, parentCancelled,
                   ppc, lineNum, scanErr, urlClosed, wres, swg, cpc,
                   resultChan, resClosed, out, errOut, varsV, varsB>>

\* The range loop ends on the closed, drained urlChan; deferred wg.Done().
WorkerExit(w) ==
    /\ wpc[w] = "recv"
    /\ urlChan = <<>>
    /\ urlClosed
    /\ wpc' = [wpc EXCEPT ![w] = "done"]
    /\ swg' = swg - 1
    /\ UNCHANGED <<wreq, proc, wlog, sentOrder, cres, atCancel, pushOrder,
                   doneOrder, rargs, rpc, exitCode, lines, ctxDone,
                   parentCancelled, ppc, lineNum, scanErr, urlChan,
                   urlClosed, wurl, wres, cpc, resultChan, resClosed, out,
                   errOut, varsV, varsB>>

\* Inside checkURL, httpClient.Do returns: with the response or the
\* transport error of the address when the context is live, with the
\* cancellation when it is done.  What checkURL is to return is fixed here.
WorkerDo(w) ==
    /\ wpc[w] = "check"
    /\ wreq[w] = "pending"
    /\ wreq' = [wreq EXCEPT ![w] = IF ctxDone THEN "cancelled" ELSE "returned"]
    /\ UNCHANGED <<proc, wlog, sentOrder, cres, atCancel, pushOrder,
                   doneOrder, rargs, rpc, exitCode, lines, ctxDone,
                   parentCancelled, ppc, lineNum, scanErr, urlChan,
                   urlClosed, wpc, wurl, wres, swg, cpc, resultChan,
                   resClosed, out, errOut, varsV, varsB>>

\* Plausible slip: a worker whose probe failed calls checkURL once more
\* before it sends the result.
WorkerCheck_Retry(w) ==
    /\ wpc[w] = "check"
    /\ wreq[w] # "pending"
    /\ wres' = [wres EXCEPT ![w] = checkURL(wreq[w] = "cancelled", wurl[w])]
    /\ doneOrder' = Append(doneOrder, wurl[w])
    /\ atCancel' = atCancel \ {w}
    /\ wlog' = [wlog EXCEPT ![w] =
                   @ \o (IF NewRequestErr(wurl[w]) # "" THEN <<>>
                         ELSE BodyEvents(ClientDo(wurl[w],
                                                  wreq[w] = "cancelled")))]
    /\ wreq' = [wreq EXCEPT ![w] = "pending"]
    /\ wpc' = [wpc EXCEPT ![w] =
                  IF wres'[w].Err # "" /\ wres[w] # wres'[w]
                  THEN "check" ELSE "send"]
    /\ UNCHANGED <<proc, sentOrder, cres, pushOrder, rargs, rpc, exitCode,
                   lines, ctxDone, parentCancelled, ppc, lineNum, scanErr,
                   urlChan, urlClosed, wurl, swg, cpc, resultChan, resClosed,
                   out, errOut, varsV, varsB>>

\* checkURL returns: after a response the body was drained, io.Copy's error
\* discarded, and closed, and Status set; after an error Err was set.  A
\* cancellation that came after httpClient.Do returned changes nothing.
WorkerCheck(w) ==
    /\ wpc[w] = "check"
    /\ wreq[w] # "pending"
    /\ wres' = [wres EXCEPT ![w] = checkURL(wreq[w] = "cancelled", wurl[w])]
    /\ doneOrder' = Append(doneOrder, wurl[w])
    /\ atCancel' = atCancel \ {w}
    /\ wlog' = [wlog EXCEPT ![w] =
                   @ \o (IF NewRequestErr(wurl[w]) # "" THEN <<>>
                         ELSE BodyEvents(ClientDo(wurl[w],
                                                  wreq[w] = "cancelled")))]
    /\ wreq' = [wreq EXCEPT ![w] = "pending"]
    /\ wpc' = [wpc EXCEPT ![w] = "send"]
    /\ UNCHANGED <<proc, sentOrder, cres, pushOrder, rargs, rpc, exitCode,
                   lines, ctxDone, parentCancelled, ppc, lineNum, scanErr,
                   urlChan, urlClosed, wurl, swg, cpc, resultChan, resClosed,
                   out, errOut, varsV, varsB>>

\* select case resultChan <- result: blocks while the channel is full; a send
\* on a closed channel panics.
WorkerSend(w) ==
    /\ wpc[w] = "send"
    /\ IF resClosed
       THEN /\ wpc' = [wpc EXCEPT ![w] = "panic"]
            /\ UNCHANGED <<resultChan, pushOrder, wlog>>
       ELSE /\ Len(resultChan) < ChanCapacity
            /\ resultChan' = Append(resultChan, wres[w])
            /\ pushOrder' = Append(pushOrder, wres[w].URL)
            /\ wlog' = [wlog EXCEPT ![w] = Append(@, "emit")]
            /\ wpc' = [wpc EXCEPT ![w] = "recv"]
    /\ UNCHANGED <<wreq, proc, sentOrder, cres, atCancel, doneOrder, rargs, rpc,
                   exitCode, lines, ctxDone, parentCancelled, ppc, lineNum,
                   scanErr, urlChan, urlClosed, wurl, wres, swg, cpc,
                   resClosed, out, errOut, varsV, varsB>>

\* select case <-ctx.Done(): the worker returns without sending its result;
\* deferred wg.Done().
WorkerCancelled(w) ==
    /\ wpc[w] = "send"
    /\ ctxDone
    /\ wpc' = [wpc EXCEPT ![w] = "done"]
    /\ swg' = swg - 1
    /\ UNCHANGED <<wreq, proc, wlog, sentOrder, cres, atCancel, pushOrder,
                   doneOrder, rargs, rpc, exitCode, lines, ctxDone,
                   parentCancelled, ppc, lineNum, scanErr, urlChan,
                   urlClosed, wurl, wres, cpc, resultChan, resClosed, out,
                   errOut, varsV, varsB>>

\* Plausible slip: the closer waits for the end of the input (urlChan closed
\* and drained), not for the workers, before it closes resultChan.
CloserClose_OnInputEnd ==
    /\ cpc = "wait"
    /\ urlClosed
    /\ urlChan = <<>>
    /\ resClosed' = TRUE
    /\ cpc' = "done"
    /\ UNCHANGED <<wreq, proc, wlog, sentOrder, cres, atCancel, pushOrder,
                   doneOrder, rargs, rpc, exitCode, lines, ctxDone,
                   parentCancelled, ppc, lineNum, scanErr, urlChan,
                   urlClosed, wpc, wurl, wres, swg, resultChan, out, errOut,
                   varsV, varsB>>

\* The closer: wg.Wait() returns and it closes resultChan.
CloserClose ==
    /\ cpc = "wait"
    /\ WaitGroupZero(swg)
    /\ resClosed' = TRUE
    /\ cpc' = "done"
    /\ UNCHANGED <<wreq, proc, wlog, sentOrder, cres, atCancel, pushOrder,
                   doneOrder, rargs, rpc, exitCode, lines, ctxDone,
                   parentCancelled, ppc, lineNum, scanErr, urlChan,
                   urlClosed, wpc, wurl, wres, swg, resultChan, out, errOut,
                   varsV, varsB>>

\* Plausible slip: the results are gathered in a map and ranged over, so the
\* consumer takes them in any order.
ConsumerRecv_Unordered ==
    /\ rpc = "consume"
    /\ \E k \in DOMAIN resultChan :
          /\ cres' = resultChan[k]
          /\ resultChan' = SubSeq(resultChan, 1, k - 1)
                               \o SubSeq(resultChan, k + 1, Len(resultChan))
    /\ rpc' = "write"
    /\ UNCHANGED <<wreq, proc, wlog, sentOrder, atCancel, pushOrder, doneOrder,
                   rargs, exitCode, lines, ctxDone, parentCancelled, ppc,
                   lineNum, scanErr, urlChan, urlClosed, wpc, wurl, wres,
                   swg, cpc, resClosed, out, errOut, varsV, varsB>>

\* for result := range resultChan: the consumer receives a result.
ConsumerRecv ==
    /\ rpc = "consume"
    /\ resultChan # <<>>
    /\ cres' = Head(resultChan)
    /\ resultChan' = Tail(resultChan)
    /\ rpc' = "write"
    /\ UNCHANGED <<wreq, proc, wlog, sentOrder, atCancel, pushOrder, doneOrder,
                   rargs, exitCode, lines, ctxDone, parentCancelled, ppc,
                   lineNum, scanErr, urlChan, urlClosed, wpc, wurl, wres,
                   swg, cpc, resClosed, out, errOut, varsV, varsB>>

\* The consumer's fmt.Fprintf(w, "Url: ...") returns: the line of the result
\* is on w.  The call is under way while rpc = "write".
ConsumerWrite ==
    /\ rpc = "write"
    /\ out' = Append(out, Render(cres))
    /\ rpc' = "consume"
    /\ UNCHANGED <<wreq, proc, wlog, sentOrder, cres, atCancel, pushOrder,
                   doneOrder, rargs, exitCode, lines, ctxDone,
                   parentCancelled, ppc, lineNum, scanErr, urlChan,
                   urlClosed, wpc, wurl, wres, swg, cpc, resultChan,
                   resClosed, errOut, varsV, varsB>>

\* The consumer's range loop ends on the closed, drained resultChan; the
\* function returns ExitSuccess and its deferred cancel() runs.
ConsumerReturn ==
    /\ rpc = "consume"
    /\ resultChan = <<>>
    /\ resClosed
    /\ exitCode' = StreamExit(out)
    /\ ctxDone' = TRUE
    /\ rpc' = "returned"
    /\ UNCHANGED <<wreq, proc, wlog, sentOrder, cres, atCancel, pushOrder,
                   doneOrder, rargs, lines, parentCancelled, ppc, lineNum,
                   scanErr, urlChan, urlClosed, wpc, wurl, wres, swg, cpc,
                   resultChan, resClosed, out, errOut, varsV, varsB>>

\* The steps of streamHealthCheckWithContext and of its goroutines.
NextDirect ==
    \/ StreamStart
    \/ ParentCancel
    \/ ProducerScan
    \/ ProducerWrite
    \/ ProducerSend
    \/ ProducerCancelled
    \/ ProducerEOF
    \/ ProducerReadError
    \/ ProducerReport
    \/ ProducerReturn
    \/ \E w \in Workers : WorkerRecv(w)
    \/ \E w \in Workers : WorkerExit(w)
    \/ \E w \in Workers : WorkerDo(w)
    \/ \E w \in Workers : WorkerCheck(w)
    \/ \E w \in Workers : WorkerSend(w)
    \/ \E w \in Workers : WorkerCancelled(w)
    \/ CloserClose
    \/ ConsumerRecv
    \/ ConsumerWrite
    \/ ConsumerReturn

NextStream == RunStart \/ NextDirect

SpecStream == InitStream /\ [][NextStream]_vars

\* Every goroutine that can run eventually runs, and every probe ends.
FairSpecBatch == SpecBatch /\ WF_vars(NextBatch)

\* The steps of streamHealthCheckWithContext that the scheduler and the
\* timeouts of the probes bring about: every goroutine that can run does,
\* every probe ends and every write on the sink returns.  The reads are not
\* among them: scanner.Scan() returns when the caller's reader does, which
\* nothing in the program can force, and cancelling is the caller's choice.
StreamProgress ==
    \/ StreamStart
    \/ ProducerWrite
    \/ ProducerSend
    \/ ProducerCancelled
    \/ ProducerReport
    \/ ProducerReturn
    \/ \E w \in Workers : WorkerRecv(w)
    \/ \E w \in Workers : WorkerExit(w)
    \/ \E w \in Workers : WorkerDo(w)
    \/ \E w \in Workers : WorkerCheck(w)
    \/ \E w \in Workers : WorkerSend(w)
    \/ \E w \in Workers : WorkerCancelled(w)
    \/ CloserClose
    \/ ConsumerRecv
    \/ ConsumerWrite
    \/ ConsumerReturn

\* streamHealthCheckWithContext under a context its caller may cancel and a
\* reader that may block for ever.
FairSpecStream ==
    InitDirect /\ [][NextDirect]_vars /\ WF_vars(StreamProgress)

\* streamHealthCheck, whose context nobody cancels, on a readable input
\* longer than everything its queues, workers, producer and consumer can
\* hold at once: accepted lines only, or the same after one rejected line.
LongInputLen == 3 * MaxConcurrentRequests + 3

LongInputs ==
    {[k \in 1..LongInputLen |-> OkURL],
     <<FtpURL>> \o [k \in 1..LongInputLen |-> OkURL]}

InitLong ==
    /\ IdleValid
    /\ IdleBatch
    /\ rpc = "stream"
    /\ proc = Unprivileged
    /\ \E l \in LongInputs : StreamStartState("background", l)

NextLong ==
    \/ StreamStart
    \/ ProducerScan
    \/ ProducerWrite
    \/ ProducerSend
    \/ ProducerEOF
    \/ \E w \in Workers : WorkerRecv(w)
    \/ \E w \in Workers : WorkerExit(w)
    \/ \E w \in Workers : WorkerDo(w)
    \/ \E w \in Workers : WorkerCheck(w)
    \/ \E w \in Workers : WorkerSend(w)
    \/ CloserClose
    \/ ConsumerRecv
    \/ ConsumerWrite
    \/ ConsumerReturn

SpecLong == InitLong /\ [][NextLong]_vars

(***************************************************************************)
(* The run of src/unnamed/part_001: after the same setup as RunStart it    *)
(* reads every line with GetServices, returns 1 at the first line the      *)
(* Validator rejects, and otherwise calls its HealthCheck and prints the   *)
(* results in input order.                                                 *)
(***************************************************************************)
InitRunV1 ==
    /\ IdleValid
    /\ version = "part_001"
    /\ burls = <<>>
    /\ bpc = "idle"
    /\ bi = 1
    /\ sem = 0
    /\ semCap = 0
    /\ wgCount = 0
    /\ results = <<>>
    /\ task = <<>>
    /\ started = <<>>
    /\ writers = <<>>
    /\ tlog = <<>>
    /\ rpc = "run"
    /\ proc \in Processes
    /\ \/ \E a \in {"noargs", "nofile"} : StreamStartState(a, <<>>)
       \/ \E l \in StreamInputs : StreamStartState("file", l)

\* services := GetServices(f) and the validation loop: the first rejected
\* entry is reported on stderr and run returns ExitError; otherwise
\* HealthCheck(services) is called.
RunServices ==
    /\ rpc = "services"
    /\ LET services == GetServices(lines) IN
       IF \E n \in DOMAIN services : ~isValidURL(services[n]).value
       THEN /\ errOut' = Append(errOut, "Error: Invalid URL")
            /\ exitCode' = ExitError
            /\ rpc' = "exited"
            /\ UNCHANGED <<tlog, burls, bpc>>
       ELSE /\ burls' = services
            /\ bpc' = "call"
            /\ rpc' = "healthcheck"
            /\ UNCHANGED <<errOut, exitCode>>
    /\ UNCHANGED <<wreq, proc, tlog, wlog, sentOrder, writers, version, bi, sem,
                   semCap, wgCount, results, task, started, cres, atCancel,
                   pushOrder, doneOrder, rargs, lines, ctxDone,
                   parentCancelled, ppc, lineNum, scanErr, urlChan,
                   urlClosed, wpc, wurl, wres, swg, cpc, resultChan,
                   resClosed, out, varsV>>

\* HealthCheck has returned: run prints one line per result, in the order of
\* the results, and returns ExitSuccess.
RunReport ==
    /\ rpc = "healthcheck"
    /\ bpc = "returned"
    /\ out' = out \o [k \in DOMAIN results |-> Render(results[k])]
    /\ exitCode' = ExitSuccess
    /\ rpc' = "returned"
    /\ UNCHANGED <<wreq, proc, wlog, sentOrder, cres, atCancel, pushOrder,
                   doneOrder, rargs, lines, ctxDone, parentCancelled, ppc,
                   lineNum, scanErr, urlChan, urlClosed, wpc, wurl, wres,
                   swg, cpc, resultChan, resClosed, errOut, varsV, varsB>>

NextRunV1 ==
    \/ RunStart
    \/ RunServices
    \/ RunReport
    \/ NextBatch

SpecRunV1 == InitRunV1 /\ [][NextRunV1]_vars

(***************************************************************************)
(* Both engines on the same addresses: HealthCheck(burls), and after its   *)
(* return streamHealthCheck on a reader holding the same addresses, one    *)
(* per line, read to its end, under context.Background().                  *)
(***************************************************************************)
ValidatedAddresses == {OkURL, UnreachableURL}

CompareInputs ==
    UNION {[1..n -> ValidatedAddresses] : n \in 0..Min(MaxUrls, MaxLines)}

InitCompare ==
    /\ IdleValid
    /\ version = "main.go"
    /\ burls \in CompareInputs
    /\ bpc = "call"
    /\ bi = 1
    /\ sem = 0
    /\ semCap = 0
    /\ wgCount = 0
    /\ results = <<>>
    /\ task = <<>>
    /\ started = <<>>
    /\ writers = <<>>
    /\ tlog = <<>>
    /\ rpc = "queued"
    /\ proc = Unprivileged
    /\ StreamStartState("background", burls)

\* streamHealthCheck(r, w): streamHealthCheckWithContext under a context
\* nobody cancels, called once HealthCheck has returned.
streamHealthCheck ==
    /\ rpc = "queued"
    /\ bpc = "returned"
    /\ rpc' = "stream"
    /\ UNCHANGED <<wreq, proc, wlog, sentOrder, cres, atCancel, pushOrder,
                   doneOrder, rargs, exitCode, lines, ctxDone,
                   parentCancelled, ppc, lineNum, scanErr, urlChan,
                   urlClosed, wpc, wurl, wres, swg, cpc, resultChan,
                   resClosed, out, errOut, varsV, varsB>>

NextCompare ==
    \/ NextBatch
    \/ streamHealthCheck
    \/ StreamStart
    \/ ProducerScan
    \/ ProducerSend
    \/ ProducerEOF
    \/ \E w \in Workers : WorkerRecv(w)
    \/ \E w \in Workers : WorkerExit(w)
    \/ \E w \in Workers : WorkerDo(w)
    \/ \E w \in Workers : WorkerCheck(w)
    \/ \E w \in Workers : WorkerSend(w)
    \/ CloserClose
    \/ ConsumerRecv
    \/ ConsumerWrite
    \/ ConsumerReturn

SpecCompare == InitCompare /\ [][NextCompare]_vars

(***************************************************************************)
(* The whole program: any of its entry points, in either version of run.   *)
(***************************************************************************)
Init == InitValid \/ InitBatch \/ InitStream \/ InitRunV1

Next == NextValid \/ NextBatch \/ NextStream \/ RunServices \/ RunReport

Spec == Init /\ [][Next]_vars

(***************************************************************************)
(* Properties.                                                             *)
(***************************************************************************)
\* What the specification says the Validator accepts: a scheme followed by
\* at least one further character.
HasPrefix(s, p) == Len(s) >= Len(p) /\ \A i \in 1..Len(p) : s[i] = p[i]

SpecAccepts(s) ==
    \/ HasPrefix(s, HTTPScheme) /\ Len(s) >= Len(HTTPScheme) + 1
    \/ HasPrefix(s, HTTPSScheme) /\ Len(s) >= Len(HTTPSScheme) + 1

\* What the environment answers to one probe of an address.
Outcome(url) ==
    IF NewRequestErr(url) # "" THEN [err |-> NewRequestErr(url), status |-> 0]
    ELSE ClientDo(url, FALSE)

\* The line the sink must show for one probe of an address.
ExpectedLine(url) ==
    IF Outcome(url).err # ""
    THEN [kind |-> "error", url |-> url, err |-> Outcome(url).err, status |-> 0]
    ELSE [kind |-> "status", url |-> url, err |-> "", status |-> Outcome(url).status]

\* Number of positions of a sequence holding x.
Occurrences(seq, x) == Cardinality({k \in DOMAIN seq : seq[k] = x})

\* Batch tasks that were created and have not released their token.
HoldingToken == {i \in DOMAIN task : task[i] \in {"newreq", "inflight", "release"}}

\* Batch tasks that have stored their result.
Stored == {i \in DOMAIN task : task[i] \in {"release", "wgdone", "exited"}}

\* Workers with a probe in flight.
Checking == {w \in DOMAIN wpc : wpc[w] = "check"}

\* The lines the producer has read.
LinesRead == SubSeq(lines, 1, lineNum)

\* Result lines (not diagnostics) written on the sink for an address.
ResultLinesFor(url) ==
    Cardinality({k \in DOMAIN out : out[k].kind \in {"error", "status"} /\ out[k].url = url})

ExactlyOneSet(r) ==
    \/ r.Err # "" /\ r.Status = 0
    \/ r.Err = "" /\ r.Status # 0

\* C1: in batch mode the probes started and not yet released never exceed
\* MaxConcurrentRequests, and every such task holds a token the submitting
\* loop acquired before creating it.
C1_BatchBounded ==
    /\ Cardinality(HoldingToken) <= MaxConcurrentRequests
    /\ sem <= semCap
    /\ semCap <= MaxConcurrentRequests
    /\ sem = Cardinality(HoldingToken) + (IF bpc = "spawn" THEN 1 ELSE 0)

C1_Witness ==
    /\ Len(burls) > MaxConcurrentRequests
    /\ bpc = "loop"
    /\ bi <= Len(burls)
    /\ Cardinality({i \in DOMAIN task : task[i] = "inflight"}) = MaxConcurrentRequests

\* C2: HealthCheck returns len(urls) results; the result at position i has
\* the address urls[i] and the outcome of the one probe made for it, also
\* for repeated addresses.
C2_BatchIndexPreserving ==
    bpc = "returned" =>
        /\ Len(results) = Len(burls)
        /\ \A i \in 1..Len(burls) :
              /\ results[i].URL = burls[i]
              /\ results[i].Err = Outcome(burls[i]).err
              /\ results[i].Status = Outcome(burls[i]).status
              /\ started[i] = 1
        /\ \A i, j \in 1..Len(burls) :
              burls[i] = burls[j] =>
                  /\ results[i].Err = results[j].Err
                  /\ results[i].Status = results[j].Status

C2_Witness ==
    /\ bpc = "returned"
    /\ Len(burls) = 3
    /\ burls[1] = burls[3]
    /\ burls[2] # burls[1]
    /\ results[2].Err # ""
    /\ results[1].Status = 200
    /\ results[3].Status = 200

\* C3: provided every probe ends and every task is scheduled, HealthCheck
\* returns, for N = 0, N equal to the limit and N above the limit.
C3_BatchTerminates == <>(bpc = "returned")

C3_Witness ==
    /\ bpc = "returned"
    /\ Len(burls) > MaxConcurrentRequests
    /\ semCap = MaxConcurrentRequests

\* C4: every finalized result, stored by a batch task, held or queued by a
\* worker, or written on the sink, has exactly one of status and error set.
C4_ExactlyOneOfStatusError ==
    /\ \A i \in Stored : ExactlyOneSet(results[i])
    /\ \A w \in DOMAIN wpc : wpc[w] = "send" => ExactlyOneSet(wres[w])
    /\ \A k \in DOMAIN resultChan : ExactlyOneSet(resultChan[k])
    /\ \A k \in DOMAIN out :
          /\ out[k].kind = "error" => out[k].err # "" /\ out[k].status = 0
          /\ out[k].kind = "status" => out[k].err = "" /\ out[k].status # 0

C4_Witness ==
    /\ rpc = "returned"
    /\ \E k \in DOMAIN out : out[k].kind = "error" /\ out[k].url = UnreachableURL
    /\ \E k \in DOMAIN out : out[k].kind = "status" /\ out[k].status = 200

\* C5: in streaming mode without cancellation every accepted non-blank line
\* read yields exactly one result on the sink, and resultChan is closed only
\* after the input is exhausted and every worker has pushed its result.
C5_StreamExactlyOnce ==
    /\ (rpc = "returned" /\ ~parentCancelled) =>
          /\ scanErr \/ lineNum = Len(lines)
          /\ \A u \in StreamLines :
                ResultLinesFor(u) =
                    (IF SpecAccepts(u) THEN Occurrences(LinesRead, u) ELSE 0)
    /\ (resClosed /\ ~parentCancelled) =>
          /\ ppc = "done"
          /\ urlChan = <<>>
          /\ \A w \in DOMAIN wpc : wpc[w] = "done"
          /\ scanErr \/ lineNum = Len(lines)
    /\ rpc = "returned" => resClosed /\ resultChan = <<>>

C5_Witness ==
    /\ rpc = "returned"
    /\ ~parentCancelled
    /\ ~scanErr
    /\ Len(lines) > MaxConcurrentRequests
    /\ \A n \in DOMAIN lines : lines[n] = OkURL
    /\ ResultLinesFor(OkURL) = Len(lines)

\* C6: in streaming mode exactly MaxConcurrentRequests workers exist and at
\* most MaxConcurrentRequests probes are in flight, whatever the input.
C6_StreamBounded ==
    /\ DOMAIN wpc = 1..MaxConcurrentRequests
    /\ Cardinality(Checking) <= MaxConcurrentRequests

C6_Witness ==
    /\ Len(lines) > MaxConcurrentRequests
    /\ Cardinality(Checking) = MaxConcurrentRequests
    /\ urlChan # <<>>

\* C7: isValidURL is true exactly for a scheme followed by at least one
\* further character, and never slices out of range.
C7_ValidatorContract ==
    vpc = "done" =>
        /\ ~vres.panics
        /\ vres.value = SpecAccepts(vs)

C7_Witness ==
    /\ vpc = "done"
    /\ vs = HTTPSScheme
    /\ ~vres.value
    /\ ~vres.panics

\* C8: run on a file holding a rejected line returns exit code 1 and starts
\* no probe for any line of that file.
C8_RunFailsOnInvalidLine ==
    (rargs = "file" /\ \E n \in DOMAIN lines : lines[n] # <<>> /\ ~SpecAccepts(lines[n])) =>
        /\ rpc \in {"returned", "exited"} => exitCode = ExitError
        /\ Checking = {}

\* The lines the producer has dealt with: those read, less the one whose
\* diagnostic is being written.
Diagnosed == IF ppc = "write" THEN lineNum - 1 ELSE lineNum

\* C9: in streaming mode a rejected line is never sent to the workers, never
\* gets a result, gets exactly one diagnostic, and the accepted lines after
\* it are still probed.
C9_StreamSkipsRejected ==
    /\ \A k \in DOMAIN urlChan : SpecAccepts(urlChan[k])
    /\ \A w \in DOMAIN wpc : wpc[w] \in {"check", "send"} => SpecAccepts(wurl[w])
    /\ \A k \in DOMAIN resultChan : SpecAccepts(resultChan[k].URL)
    /\ \A k \in DOMAIN out :
          out[k].kind \in {"error", "status"} => SpecAccepts(out[k].url)
    /\ \A n \in 1..Diagnosed :
          (lines[n] # <<>> /\ ~SpecAccepts(lines[n])) =>
              Occurrences(out, Diagnostic(n, lines[n])) = 1
    /\ Cardinality({k \in DOMAIN out : out[k].kind = "invalid"}) =
          Cardinality({n \in 1..Diagnosed : lines[n] # <<>> /\ ~SpecAccepts(lines[n])})
    /\ (rpc = "returned" /\ ~parentCancelled /\ ~scanErr) =>
          \A n \in DOMAIN lines :
              SpecAccepts(lines[n]) =>
                  ResultLinesFor(lines[n]) = Occurrences(lines, lines[n])

C9_Witness ==
    /\ rpc = "returned"
    /\ Len(lines) = 3
    /\ lines[1] = OkURL
    /\ lines[2] = FtpURL
    /\ lines[3] = OkURL
    /\ Occurrences(out, Diagnostic(2, FtpURL)) = 1
    /\ ResultLinesFor(OkURL) = 2
    /\ ResultLinesFor(FtpURL) = 0

\* C10: a probe failure is local to its address: it is shown as an error for
\* that address, every address gets the result of its own probe, and the
\* run returns exit code 0.
C10_ProbeFailureLocal ==
    /\ bpc = "returned" =>
          \A i \in 1..Len(burls) :
              /\ (results[i].Err # "") = (Outcome(burls[i]).err # "")
              /\ results[i].Status = Outcome(burls[i]).status
    /\ (rargs = "file" /\ rpc = "returned") =>
          /\ exitCode = ExitSuccess
          /\ \A u \in StreamLines :
                SpecAccepts(u) =>
                    Occurrences(out, ExpectedLine(u)) =
                        Occurrences(IF version = "part_001" THEN lines ELSE LinesRead, u)

C10_Witness ==
    /\ rargs = "file"
    /\ rpc = "returned"
    /\ exitCode = ExitSuccess
    /\ lines = <<OkURL, UnreachableURL, OkURL>>
    /\ Occurrences(out, ExpectedLine(UnreachableURL)) = 1
    /\ ExpectedLine(UnreachableURL).kind = "error"
    /\ Occurrences(out, ExpectedLine(OkURL)) = 2

\* C11: once the caller has cancelled a streaming run, the run returns: the
\* producer and every worker have ended, none parked on urlChan or on
\* resultChan, resultChan is closed and the consumer loop is over.
C11_GracefulShutdown ==
    parentCancelled ~>
        (/\ rpc = "returned"
         /\ ppc = "done"
         /\ \A w \in DOMAIN wpc : wpc[w] = "done"
         /\ cpc = "done"
         /\ resClosed
         /\ resultChan = <<>>)

\* Result lines written on the sink, whatever the address.
ResultLines == {k \in DOMAIN out : out[k].kind \in {"error", "status"}}

\* C12: every probe that finished is emitted: when the run returns, each
\* address has as many result lines on the sink as calls of checkURL for it
\* returned, cancellation or not.
C12_FinishedIsEmitted ==
    rpc = "returned" =>
        /\ Cardinality(ResultLines) = Len(doneOrder)
        /\ \A k \in DOMAIN doneOrder :
              ResultLinesFor(doneOrder[k]) = Occurrences(doneOrder, doneOrder[k])

\* Number of batch results rendered as the line x.
RenderedAs(x) == Cardinality({j \in DOMAIN results : Render(results[j]) = x})

\* C13: for the same validated addresses and the same outcomes, with no
\* cancellation and the input read to its end, the results streaming mode
\* writes and the results batch mode returns are the same multiset of
\* (address, status or error); only the order may differ.
C13_SameSemantics ==
    (rargs = "background" /\ rpc = "returned" /\ ~scanErr) =>
        /\ Len(out) = Len(results)
        /\ \A k \in DOMAIN results :
              Occurrences(out, Render(results[k])) = RenderedAs(Render(results[k]))
        /\ \A k \in DOMAIN out : Occurrences(out, out[k]) = RenderedAs(out[k])

C13_Witness ==
    /\ rargs = "background"
    /\ rpc = "returned"
    /\ ~scanErr
    /\ burls = <<OkURL, UnreachableURL, OkURL>>
    /\ Len(out) = 3
    /\ out[1] = Render(results[2])
    /\ out[2] = Render(results[1])
    /\ out[3] = Render(results[3])

IsResultLine(x) == x.kind \in {"error", "status"}

\* The addresses of the result lines of the sink, in the order written.
EmittedOrder ==
    LET rs == SelectSeq(out, IsResultLine) IN [k \in DOMAIN rs |-> rs[k].url]

\* The addresses of the result the consumer is writing, if any, and of the
\* results waiting in resultChan.
QueuedOrder ==
    (IF rpc = "write" THEN <<cres.URL>> ELSE <<>>)
        \o [k \in DOMAIN resultChan |-> resultChan[k].URL]

\* a can be obtained from b by deleting elements.
RECURSIVE IsSubseq(_, _)
IsSubseq(a, b) ==
    IF a = <<>> THEN TRUE
    ELSE IF b = <<>> THEN FALSE
    ELSE IF Head(a) = Head(b) THEN IsSubseq(Tail(a), Tail(b))
    ELSE IsSubseq(a, Tail(b))

\* C14 as stated: results are written in the order their probes completed:
\* the addresses of the result lines follow one another as in doneOrder.
C14_CompletionOrder == IsSubseq(EmittedOrder, doneOrder)

\* C14 amended: results are written in the order in which the workers sent
\* them on resultChan, each after its probe completed; that order need not
\* be the order of completion.
C14_PushOrder ==
    /\ EmittedOrder \o QueuedOrder = pushOrder
    /\ \A k \in DOMAIN pushOrder :
          Occurrences(pushOrder, pushOrder[k]) <= Occurrences(doneOrder, pushOrder[k])
    /\ Len(pushOrder) + Cardinality({w \in DOMAIN wpc : wpc[w] = "send"})
          <= Len(doneOrder)

C14_Witness ==
    /\ rpc = "returned"
    /\ ~parentCancelled
    /\ lines = <<OkURL, UnreachableURL>>
    /\ doneOrder = <<OkURL, UnreachableURL>>
    /\ pushOrder = <<UnreachableURL, OkURL>>
    /\ EmittedOrder = pushOrder

\* The non-blank lines of the input file are all accepted by the Validator.
OnlyBlankOrAccepted == \A n \in DOMAIN lines : lines[n] = <<>> \/ SpecAccepts(lines[n])

\* C15: a blank line of the input file starts no probe, gets no result and
\* no diagnostic, and leaves the outcome and the exit code of run as they
\* are without it: a file whose other lines are all accepted ends with exit
\* code 0, nothing on stderr and one result per non-blank line.  The process
\* is unprivileged, so that run gets past validateExecution.
C15_BlankLinesAbsent ==
    (rargs = "file" /\ proc = Unprivileged) =>
        /\ \A k \in DOMAIN urlChan : urlChan[k] # <<>>
        /\ \A w \in DOMAIN wpc : wpc[w] \in {"check", "send"} => wurl[w] # <<>>
        /\ \A i \in DOMAIN task : task[i] # "none" => burls[i] # <<>>
        /\ \A k \in DOMAIN out : out[k].kind # "opening" => out[k].url # <<>>
        /\ (rpc \in {"returned", "exited"} /\ ~scanErr /\ OnlyBlankOrAccepted) =>
              /\ exitCode = ExitSuccess
              /\ errOut = <<>>
              /\ \A k \in DOMAIN out : out[k].kind # "invalid"
              /\ \A n \in DOMAIN lines :
                    lines[n] # <<>> =>
                        ResultLinesFor(lines[n]) = Occurrences(lines, lines[n])

\* C16: when run has no file argument or cannot open the file, it returns
\* exit code 1 with one error on stderr, and nothing is read, validated or
\* probed: no goroutine of the engines starts and no result is written.
C16_SetupErrorFatal ==
    rargs \in {"noargs", "nofile"} =>
        /\ rpc \in {"run", "exited"}
        /\ rpc = "exited" => exitCode = ExitError /\ Len(errOut) = 1
        /\ rpc = "run" => errOut = <<>>
        /\ \A k \in DOMAIN out : out[k].kind = "opening"
        /\ lineNum = 0
        /\ ppc = "idle"
        /\ cpc = "idle"
        /\ \A w \in DOMAIN wpc : wpc[w] = "idle"
        /\ doneOrder = <<>>
        /\ bpc = "idle"
        /\ task = <<>>
        /\ vpc = "idle"

C16_Witness ==
    /\ rargs = "nofile"
    /\ rpc = "exited"
    /\ exitCode = ExitError
    /\ out = <<Opening>>
    /\ Len(errOut) = 1

\* The errors net/http returns before it dials anything.
PreNetworkErrors ==
    {"missing protocol scheme", "unsupported protocol scheme", "no Host in request URL"}

\* C17: in batch mode a malformed address gets a result with an error raised
\* before any network I/O and status 0; it is one of the len(urls) results
\* and its task has released its token when HealthCheck returns.
C17_MalformedFailsEarly ==
    /\ \A i \in Stored :
          burls[i] \in MalformedAddresses =>
              /\ results[i].URL = burls[i]
              /\ results[i].Err \in PreNetworkErrors
              /\ results[i].Status = 0
    /\ bpc = "returned" =>
          /\ Len(results) = Len(burls)
          /\ \A i \in DOMAIN burls : i \in Stored /\ i \notin HoldingToken
          /\ sem = 0

C17_Witness ==
    /\ bpc = "returned"
    /\ burls = <<OkURL, HTTPScheme, OkURL>>
    /\ results[2].Err = "no Host in request URL"
    /\ results[2].Status = 0
    /\ results[1].Status = 200
    /\ sem = 0

\* C18: every finalized result has its latency set, whatever the exit path
\* of the probe (request not built, transport error or timeout, response):
\* the results stored by batch tasks and those a worker holds or has sent.
C18_LatencySet ==
    /\ \A i \in Stored : results[i].Latency > 0
    /\ bpc = "returned" => \A i \in DOMAIN results : results[i].Latency > 0
    /\ \A w \in DOMAIN wpc : wpc[w] = "send" => wres[w].Latency > 0
    /\ \A k \in DOMAIN resultChan : resultChan[k].Latency > 0

C18_Witness ==
    /\ bpc = "returned"
    /\ burls = <<MissingSchemeURL, UnreachableURL, OkURL>>
    /\ results[1].Err = "missing protocol scheme"
    /\ results[2].Err = "connection refused"
    /\ results[3].Status = 200
    /\ \A i \in DOMAIN results : results[i].Latency = Since

\* Positions of the address list holding the redirecting address.
Redirected == {i \in DOMAIN task : burls[i] = RedirectURL}

\* C19: the probe of an address answering 302, 302, 200 is one probe holding
\* one token, and its result never shows a redirect code: unset until the
\* probe ends, then status 200 with no error.
C19_RedirectFollowed ==
    /\ \A i \in Redirected :
          /\ started[i] <= 1
          /\ results[i].Status \in {0, 200}
          /\ results[i].Err = ""
          /\ i \in Stored => results[i].Status = 200 /\ started[i] = 1
    /\ sem = Cardinality(HoldingToken) + (IF bpc = "spawn" THEN 1 ELSE 0)
    /\ bpc = "returned" => Len(results) = Len(burls)

C19_Witness ==
    /\ bpc = "returned"
    /\ burls = <<OkURL, RedirectURL, OkURL>>
    /\ ServerResponses(HostOf(burls[2])).statuses = <<302, 302, 200>>
    /\ results[2].Status = 200
    /\ results[2].Err = ""
    /\ started[2] = 1

\* Batch tasks that have not yet signalled the WaitGroup, created or not.
NotSignalled == {i \in DOMAIN task : task[i] # "exited"}

\* C20: in HealthCheck the tokens in sem are those of the tasks created and
\* not yet past their deferred release, whatever path the task took; they
\* never exceed the capacity of sem; a task has released its token before
\* it signals the WaitGroup; and at return sem is empty.
C20_TokenReleased ==
    /\ sem >= 0
    /\ sem <= semCap
    /\ sem = Cardinality(HoldingToken) + (IF bpc = "spawn" THEN 1 ELSE 0)
    /\ \A i \in DOMAIN task : task[i] \in {"wgdone", "exited"} => i \notin HoldingToken
    /\ wgCount = Cardinality(NotSignalled)
    /\ sem <= wgCount
    /\ bpc = "returned" => sem = 0 /\ wgCount = 0

C20_Witness ==
    /\ bpc = "returned"
    /\ burls = <<UnreachableURL, MissingSchemeURL, OkURL>>
    /\ semCap = MaxConcurrentRequests
    /\ sem = 0
    /\ \A i \in DOMAIN task : task[i] = "exited"

\* C21: once the caller has cancelled, the producer sends no further address
\* on urlChan and no worker starts a probe.
C21_NoAdmissionAfterCancel ==
    [][parentCancelled =>
          /\ Len(urlChan') <= Len(urlChan)
          /\ \A w \in DOMAIN wpc : wpc'[w] = "check" => wpc[w] = "check"]_vars

\* C22: a probe in flight when the caller cancels is not aborted: when it
\* ends, its result is the outcome of its address (a response, a transport
\* error or its own timeout), not the cancellation.
C22_InFlightNotAborted ==
    [][\A w \in atCancel :
          wpc'[w] = "send" =>
              /\ wres'[w].Err # "context canceled"
              /\ Render(wres'[w]) = ExpectedLine(wurl[w])]_vars

\* C23: the sink w is never written by two tasks at the same time: the
\* producer's call writing a diagnostic and the consumer's call writing a
\* result line are never under way together.
C23_SinkSingleWriter == ~(ppc = "write" /\ rpc = "write")

(* ------------------------------------------------------------------ *)
\* C24: in batch mode each slot of results is written once, by the task of
\* the same index and by no other task; the slice keeps the length it was
\* made with (no append); and when HealthCheck returns the results every
\* task has written its slot and signalled the wait group.
C24_DisjointSlots ==
    /\ \A i \in DOMAIN writers : writers[i] \in {<<>>, <<i>>}
    /\ \A i \in DOMAIN task : (i \in Stored) <=> (writers[i] = <<i>>)
    /\ bpc \in {"loop", "spawn", "wait", "returned"} =>
           /\ Len(results) = Len(burls)
           /\ DOMAIN writers = Indexes
    /\ bpc = "returned" =>
           \A i \in Indexes : writers[i] = <<i>> /\ task[i] = "exited"

\* HealthCheck has returned for more addresses than tokens, two of them
\* equal, and every slot has its one writer.
C24_Witness ==
    /\ bpc = "returned"
    /\ Len(burls) = MaxUrls
    /\ Len(burls) > MaxConcurrentRequests
    /\ burls[1] = burls[2]
    /\ \A i \in Indexes : writers[i] = <<i>>

(* ------------------------------------------------------------------ *)
\* C25: when streamHealthCheckWithContext has returned, the producer, every
\* worker and the closer have terminated, so nothing is read from the input
\* or written on the sink afterwards.
C25_AllTerminated ==
    rpc = "returned" =>
        /\ ppc = "done"
        /\ \A w \in DOMAIN wpc : wpc[w] = "done"
        /\ cpc = "done"

(* ------------------------------------------------------------------ *)
\* C26: urlChan is closed exactly when the producer has returned, on each of
\* its exit paths, and the producer never sends afterwards; resultChan is
\* closed by the closer only once every worker has returned, so no worker
\* sends on the closed resultChan (which would panic).
C26_ChannelsClosedOnce ==
    /\ urlClosed <=> ppc = "done"
    /\ resClosed <=> cpc = "done"
    /\ resClosed => \A w \in DOMAIN wpc : wpc[w] = "done"
    /\ \A w \in DOMAIN wpc : wpc[w] # "panic"

\* After a cancellation the producer has returned from its select with input
\* left unread, urlChan is closed, a worker had sent a result, every worker
\* has returned and the closer has closed resultChan.
C26_Witness ==
    /\ parentCancelled
    /\ ppc = "done" /\ urlClosed
    /\ lineNum < Len(lines) /\ ~scanErr
    /\ pushOrder # <<>>
    /\ resClosed

(* ------------------------------------------------------------------ *)
\* Copies of address u the streaming engine has taken from the producer:
\* waiting in urlChan, being checked by a worker, or checked.
Taken(u) ==
    Occurrences(urlChan, u)
        + Cardinality({w \in Checking : wurl[w] = u})
        + Occurrences(doneOrder, u)

\* C27: no address is probed more than once.  Batch: each index has at most
\* one task, exactly one once it is created, and that task stores at most
\* once.  Streaming: every copy of an address sent on urlChan is waiting
\* there, in the hands of one worker, or was checked once; so the calls of
\* checkURL never outnumber the sends, failed probes and cancellation
\* included.
C27_ProbedOnce ==
    /\ \A i \in DOMAIN task :
          /\ started[i] = (IF task[i] = "none" THEN 0 ELSE 1)
          /\ Len(writers[i]) <= 1
    /\ bpc = "returned" => \A i \in Indexes : started[i] = 1
    /\ \A k \in DOMAIN lines : Taken(lines[k]) = Occurrences(sentOrder, lines[k])
    /\ Len(doneOrder) + Cardinality(Checking) + Len(urlChan) = Len(sentOrder)

\* The same address was sent twice, the caller cancelled, both probes ended,
\* one of them failed, and the function has returned.
C27_Witness ==
    /\ rpc = "returned"
    /\ parentCancelled
    /\ Len(sentOrder) = 2
    /\ sentOrder[1] = sentOrder[2]
    /\ Len(doneOrder) = 2
    /\ \E w \in DOMAIN wres : wres[w].Err # ""

(* ------------------------------------------------------------------ *)
\* Addresses read from the input and accepted whose result is not yet on
\* the sink nor dropped: the one the producer is sending, those waiting in
\* urlChan, those in the hands of a worker (probe in flight or result to be
\* sent), the results waiting in resultChan and the one being written.
Held ==
    (IF ppc = "send" THEN 1 ELSE 0)
        + Len(urlChan)
        + Cardinality({w \in DOMAIN wpc : wpc[w] \in {"check", "send"}})
        + Len(resultChan)
        + (IF rpc = "write" THEN 1 ELSE 0)

\* C28: the streaming engine never holds more than MaxConcurrentRequests
\* addresses, whatever the size of the input.
C28_HoldsAtMostLimit == Held <= MaxConcurrentRequests

(* ------------------------------------------------------------------ *)
\* C29: once HealthCheck has made its semaphore, the capacity is the smaller
\* of MaxConcurrentRequests and the number of addresses; with no address
\* the capacity is 0, no token is held and the results are empty.
C29_PoolClamped ==
    bpc \in {"loop", "spawn", "wait", "returned"} =>
        /\ semCap = Min(MaxConcurrentRequests, Len(burls))
        /\ semCap <= Len(burls)
        /\ Len(burls) = 0 => semCap = 0 /\ sem = 0 /\ results = <<>>

(* ------------------------------------------------------------------ *)
\* C30: a probe that got a response, whatever its status, drains and then
\* closes the body before it stores its result and before it releases its
\* token (batch), and before the worker sends the result or takes another
\* address (streaming); a probe without a response touches no body.
C30_BodyDrainedAndClosed ==
    /\ \A i \in DOMAIN tlog :
          /\ i \notin Stored => tlog[i] = <<>>
          /\ i \in Stored =>
                LET done == IF results[i].Err = ""
                            THEN <<"drain", "close", "store">>
                            ELSE <<"store">>
                IN  tlog[i] = IF task[i] = "release" THEN done
                              ELSE Append(done, "release")
    /\ \A w \in DOMAIN wlog :
          /\ wpc[w] = "check" => wlog[w] = <<>>
          /\ wpc[w] = "send" =>
                wlog[w] = IF wres[w].Err = "" THEN <<"drain", "close">>
                          ELSE <<>>
          /\ wpc[w] \in {"recv", "done"} =>
                wlog[w] \in {<<>>, <<"emit">>, <<"drain", "close">>,
                             <<"drain", "close", "emit">>}

\* HealthCheck has returned; the probes answered 200 and 500 and both
\* bodies were drained and closed before the store and the release.
C30_Witness ==
    /\ bpc = "returned"
    /\ burls = <<OkURL, Srv500URL, UnreachableURL>>
    /\ results[2].Status = 500
    /\ tlog[1] = <<"drain", "close", "store", "release">>
    /\ tlog[2] = <<"drain", "close", "store", "release">>
    /\ tlog[3] = <<"store", "release">>

(* ------------------------------------------------------------------ *)
\* Batch tasks whose request is in flight.
InFlight == {i \in DOMAIN task : task[i] = "inflight"}

\* C31: admission does not serialize the probes.  While an address is left
\* and a token is free the submitting loop can take the token, whatever the
\* probes already started are doing; the goroutine is then created at once;
\* and every started probe can go on whatever the others do.
C31_AdmissionNotSerialized ==
    /\ (bpc = "loop" /\ bi <= Len(burls) /\ sem < semCap) => ENABLED Acquire
    /\ bpc = "spawn" => ENABLED Spawn
    /\ \A i \in DOMAIN task :
          /\ task[i] = "newreq" => ENABLED TaskNewRequest(i)
          /\ task[i] = "inflight" => ENABLED TaskComplete(i)

\* With as many addresses as tokens (at least 2) every probe is in flight at
\* the same time: min(N, limit) = N probes, none of them finished.
C31_Witness ==
    /\ Len(burls) = MaxConcurrentRequests
    /\ Len(burls) >= 2
    /\ InFlight = Indexes
    /\ Cardinality(InFlight) = Min(Len(burls), MaxConcurrentRequests)
    /\ bpc = "wait"

(* ------------------------------------------------------------------ *)
\* The accepted lines among those the producer has read.
AcceptedRead == SelectSeq(LinesRead, SpecAccepts)

\* C32: when the scanner stops with an error before the end of the input,
\* the producer admits nothing more: it reports the error on stderr, once,
\* then returns, and urlChan is closed exactly when it has returned; the
\* addresses admitted are the accepted lines read before the failure and
\* none after it; and, the caller not cancelling, the run returns only
\* after the producer has, with exit code 0 and exactly one result line for
\* each address admitted, each being the outcome of its probe.
C32_ReadErrorHandled ==
    scanErr =>
        /\ ppc \in {"report", "return", "done"}
        /\ urlClosed <=> ppc = "done"
        /\ lineNum < Len(lines)
        /\ Occurrences(errOut, "Error reading input")
              = (IF ppc = "report" THEN 0 ELSE 1)
        /\ sentOrder = AcceptedRead
        /\ (rpc = "returned" /\ ~parentCancelled) =>
              /\ ppc = "done"
              /\ exitCode = ExitSuccess
              /\ Cardinality(ResultLines) = Len(sentOrder)
              /\ \A k \in DOMAIN sentOrder :
                    Occurrences(out, ExpectedLine(sentOrder[k]))
                        = Occurrences(sentOrder, sentOrder[k])

\* run on a file of three accepted lines: the read failed after the second,
\* the two addresses read have their result on the sink, the third has
\* none, and run returned 0.
C32_Witness ==
    /\ rargs = "file"
    /\ rpc = "returned"
    /\ scanErr
    /\ ppc = "done" /\ urlClosed
    /\ errOut = <<"Error reading input">>
    /\ lines = <<OkURL, OkURL, OkURL>>
    /\ lineNum = 2
    /\ ResultLinesFor(OkURL) = 2
    /\ exitCode = ExitSuccess

====
